---- MODULE Spec2Model ----
(***************************************************************************)
(* Trading pipeline and position ledger of super-bot-python-v2.            *)
(*                                                                         *)
(* The ledger is the `transactions` table handled by TransactionRepository *)
(* (app/database/transaction_repository.py); the pipeline is the LangGraph *)
(* graph of app/agent/graph/trading_graph.py with its seven nodes.         *)
(*                                                                         *)
(* Amounts are exact: quantities, prices and dollar amounts are integers,  *)
(* and values that need a division (average buy price, PnL) are fractions  *)
(* [num, den] in lowest terms.  Float and DECIMAL rounding is not          *)
(* modelled.  Free text (reason, agent_name, prompts) is left out.         *)
(***************************************************************************)
EXTENDS Integers, Sequences, FiniteSets, TLC

VARIABLES
    ledger,     \* committed rows of the transactions table, in insertion (id) order
    now,        \* the latest created_at value stored so far (datetime.now())
    last,       \* the last buy/sell call: its arguments, what it read, its outcome
    calls,      \* in-flight buy/sell calls of concurrent sessions (ConcSpec)
    state,      \* the AgentState of the pipeline run
    pc,         \* the node the run executes next
    arb,        \* locals of executor_agent_node across its await of the LLM
    hist,       \* the node the run invoked last, and what it was handed
    runs        \* the runs going on at the same time: where each is, the dict each holds

ledgerVars == <<ledger, now, last, calls>>
runVars == <<state, pc, arb, hist, runs>>
vars == <<ledger, now, last, calls, state, pc, arb, hist, runs>>

----------------------------------------------------------------------------
(* Bounds of the model *)

MaxTx == 3          \* rows the ledger may hold

(* Program constant: the default balance of an empty ledger *)
DefaultBalance == 10000

Symbols == {"BTCUSD", "ETHUSD"}
Prices == {2500, 5000}

(* The (symbol, quantity, price) arguments of the calls: the primary symbol *)
(* in two lot sizes, a second symbol in one                                 *)
Orders == ({"BTCUSD"} \X {1, 2} \X Prices) \cup ({"ETHUSD"} \X {1} \X Prices)
Sessions == {"s1", "s2"}

----------------------------------------------------------------------------
(* Fractions *)

RECURSIVE Gcd(_, _)
Gcd(a, b) == IF b = 0 THEN a ELSE Gcd(b, a % b)

Abs(x) == IF x < 0 THEN -x ELSE x

(* Optional[float]: den = 0 is None, otherwise num/den in lowest terms *)
NoneFrac == [num |-> 0, den |-> 0]

Frac(n, d) ==
    LET g == Gcd(Abs(n), d)
    IN  [num |-> n \div g, den |-> d \div g]

IsNone(f) == f.den = 0

AddFrac(a, b) == Frac(a.num * b.den + b.num * a.den, a.den * b.den)

----------------------------------------------------------------------------
(* Queries of TransactionRepository, on the rows l a session sees *)

RECURSIVE SumQuantity(_, _, _)
SumQuantity(l, symbol, action) ==
    IF l = <<>> THEN 0
    ELSE (IF Head(l).symbol = symbol /\ Head(l).action = action
            THEN Head(l).quantity ELSE 0)
         + SumQuantity(Tail(l), symbol, action)

RECURSIVE SumCost(_, _, _)
SumCost(l, symbol, action) ==
    IF l = <<>> THEN 0
    ELSE (IF Head(l).symbol = symbol /\ Head(l).action = action
            THEN Head(l).quantity * Head(l).price ELSE 0)
         + SumCost(Tail(l), symbol, action)

(* ORDER BY created_at DESC LIMIT 1: the rows that query may return.  Rows  *)
(* with the same created_at are not ordered by the query, so each of them   *)
(* is a possible first row.                                                 *)
LatestRows(l) ==
    {i \in 1..Len(l) : \A j \in 1..Len(l) : l[j].created_at <= l[i].created_at}

(* `float(balance) if balance else 10000.0` *)
BalanceOrDefault(balance) == IF balance # 0 THEN balance ELSE DefaultBalance

(* get_available_balance: the set of values the call may return *)
GetAvailableBalance(l) ==
    IF l = <<>> THEN {DefaultBalance}
    ELSE {BalanceOrDefault(l[i].available_usd) : i \in LatestRows(l)}

(* get_position_quantity *)
GetPositionQuantity(l, symbol) ==
    SumQuantity(l, symbol, "buy") - SumQuantity(l, symbol, "sell")

(* get_average_buy_price *)
AverageOverOpenLots(l, symbol) ==
    IF GetPositionQuantity(l, symbol) <= 0 THEN NoneFrac
    ELSE Frac(SumCost(l, symbol, "buy") - SumCost(l, symbol, "sell"),
              GetPositionQuantity(l, symbol))
GetAverageBuyPrice(l, symbol) ==
    IF SumQuantity(l, symbol, "buy") = 0 THEN NoneFrac
    ELSE Frac(SumCost(l, symbol, "buy"), SumQuantity(l, symbol, "buy"))

(* calculate_portfolio_value({symbol: current_price}), balance read given *)
CalculatePortfolioValue(l, symbol, current_price, available_usd) ==
    available_usd
    + (IF GetPositionQuantity(l, symbol) > 0
         THEN GetPositionQuantity(l, symbol) * current_price ELSE 0)

----------------------------------------------------------------------------
(* buy and sell *)

(* `if total_cost > available_usd: raise InsufficientFundsError` *)
InsufficientFundsStrict(total_cost, available_usd) == total_cost >= available_usd
InsufficientFundsNever(total_cost, available_usd) == FALSE
InsufficientFunds(total_cost, available_usd) == total_cost > available_usd

(* `if quantity > available_quantity: raise InsufficientQuantityError` *)
InsufficientQuantityStrict(quantity, available_quantity) ==
    quantity >= available_quantity
InsufficientQuantityNever(quantity, available_quantity) == FALSE
InsufficientQuantity(quantity, available_quantity) == quantity > available_quantity

NoTx ==
    [symbol |-> "BTCUSD", action |-> "none", quantity |-> 0, price |-> 0,
     total |-> 0, portfolio_value |-> 0, available_usd |-> 0, pnl |-> NoneFrac,
     created_at |-> 0]

(* `pnl = (price - avg_buy_price) * quantity` when an average exists *)
Pnl(price, avg_buy_price, quantity) ==
    IF IsNone(avg_buy_price) THEN NoneFrac
    ELSE Frac((price * avg_buy_price.den - avg_buy_price.num) * quantity,
              avg_buy_price.den)

(* The row buy() builds; available_usd is the balance the session reads *)
BuyTransaction(l, t, symbol, quantity, price, available_usd) ==
    [symbol |-> symbol, action |-> "buy", quantity |-> quantity, price |-> price,
     total |-> quantity * price,
     portfolio_value |->
        CalculatePortfolioValue(l, symbol, price, available_usd) + quantity * price,
     available_usd |-> available_usd - quantity * price,
     pnl |-> NoneFrac, created_at |-> t]

(* The row sell() builds *)
SellTransaction(l, t, symbol, quantity, price, available_usd) ==
    [symbol |-> symbol, action |-> "sell", quantity |-> quantity, price |-> price,
     total |-> quantity * price,
     portfolio_value |-> CalculatePortfolioValue(l, symbol, price, available_usd),
     available_usd |-> available_usd + quantity * price,
     pnl |-> Pnl(price, GetAverageBuyPrice(l, symbol), quantity),
     created_at |-> t]

(* get_pnl_summary: `func.sum(Transaction.pnl)` and `func.count(...)` over  *)
(* the sells created at or after the cutoff that carry a PnL.  SUM over no *)
(* row is NULL.                                                            *)
InPnlWindowAllTime(tx, cutoff) == tx.action = "sell" /\ ~IsNone(tx.pnl)

InPnlWindow(tx, cutoff) ==
    tx.action = "sell" /\ tx.created_at >= cutoff /\ ~IsNone(tx.pnl)

RECURSIVE SumPnl(_, _)
SumPnl(l, cutoff) ==
    IF l = <<>> THEN NoneFrac
    ELSE LET rest == SumPnl(Tail(l), cutoff)
         IN  IF ~InPnlWindow(Head(l), cutoff) THEN rest
             ELSE IF IsNone(rest) THEN Head(l).pnl
             ELSE AddFrac(Head(l).pnl, rest)

RECURSIVE CountPnl(_, _)
CountPnl(l, cutoff) ==
    IF l = <<>> THEN 0
    ELSE (IF InPnlWindow(Head(l), cutoff) THEN 1 ELSE 0) + CountPnl(Tail(l), cutoff)

NoSummary ==
    [period_days |-> 0, total_pnl |-> NoneFrac, num_trades |-> 0,
     avg_pnl_per_trade |-> NoneFrac]

(* clock is `datetime.now(timezone.utc)` of the call, in days *)
GetPnlSummary(l, clock, days) ==
    LET cutoff_date == clock - days
        row_total_pnl == SumPnl(l, cutoff_date)
        row_num_trades == CountPnl(l, cutoff_date)
        total_pnl == IF ~IsNone(row_total_pnl) /\ row_total_pnl.num # 0
                     THEN row_total_pnl ELSE Frac(0, 1)
        num_trades == IF row_num_trades # 0 THEN row_num_trades ELSE 0
    IN  [period_days |-> days, total_pnl |-> total_pnl, num_trades |-> num_trades,
         avg_pnl_per_trade |->
            IF num_trades > 0
            THEN Frac(total_pnl.num, total_pnl.den * num_trades)
            ELSE Frac(0, 1)]

(* `self.session.add(transaction)`, flushed and committed: an INSERT *)
SessionAddReplacing(l, tx) ==
    IF l = <<>> THEN <<tx>> ELSE [l EXCEPT ![Len(l)] = tx]
SessionAdd(l, tx) == Append(l, tx)

(* The body of buy() on the rows l at time t: its outcome and its row *)
BuyCall(l, t, symbol, quantity, price, available_usd) ==
    IF InsufficientFunds(quantity * price, available_usd)
    THEN [outcome |-> "InsufficientFunds", tx |-> NoTx]
    ELSE [outcome |-> "ok",
          tx |-> BuyTransaction(l, t, symbol, quantity, price, available_usd)]

(* The body of sell() on the rows l at time t *)
SellCall(l, t, symbol, quantity, price, available_usd) ==
    IF InsufficientQuantity(quantity, GetPositionQuantity(l, symbol))
    THEN [outcome |-> "InsufficientQuantity", tx |-> NoTx]
    ELSE [outcome |-> "ok",
          tx |-> SellTransaction(l, t, symbol, quantity, price, available_usd)]

(* What `last` records of a call *)
CallRecord(op, symbol, quantity, price, before, available_usd, r) ==
    [op |-> op, symbol |-> symbol, quantity |-> quantity, price |-> price,
     before |-> before, available_usd |-> available_usd,
     outcome |-> r.outcome, tx |-> r.tx, clock |-> 0, summary |-> NoSummary]

NoCall ==
    [op |-> "none", symbol |-> "BTCUSD", quantity |-> 0, price |-> 0,
     before |-> <<>>, available_usd |-> 0, outcome |-> "none", tx |-> NoTx,
     clock |-> 0, summary |-> NoSummary]

IdleCall ==
    [pc |-> "idle", op |-> "none", symbol |-> "BTCUSD", quantity |-> 0, price |-> 0,
     before |-> <<>>, available_usd |-> 0, outcome |-> "none", tx |-> NoTx]

----------------------------------------------------------------------------
(* AgentState: the context of one pipeline run.  A key that is not written *)
(* yet is "None" (text), {} (number) or <<>> (text built of parts, dict).  *)
(* Keys a node writes together with a modelled key and nobody reads        *)
(* (summaries, distances) are left out; of executor_decision_text, the     *)
(* parts kept are those no other key holds: the accepted points and the    *)
(* key factors.                                                            *)

NoneNum == {}
Num(v) == {v}

InitialState(symbols, news_limit) ==
    [symbols |-> symbols, news_limit |-> news_limit,
     news_sentiment |-> "None",
     technical_analysis_momentum |-> "None",
     fear_greed_index |-> NoneNum,
     current_price |-> NoneNum,
     nearest_support |-> NoneNum,
     nearest_resistance |-> NoneNum,
     strategist_direction |-> "None",
     strategist_proposal |-> "None",
     skeptic_recommendation |-> "None",
     skeptic_risks |-> NoneNum,
     skeptic_critique |-> "None",
     executor_decision |-> "None",
     executor_reasoning |-> <<>>,
     executor_final_params |-> <<>>,
     executor_decision_text |-> <<>>,
     error_message |-> "None"]

NoState == InitialState(<<"BTCUSD">>, 0)

ClearErrorOff(st) == st

(* `if state.get("error_message"): state["error_message"] = None` *)
ClearError(st) == [st EXCEPT !.error_message = "None"]

SetError(st, message) == [st EXCEPT !.error_message = message]

(* `state.get("symbols", ["BTCUSD"])[0]` *)
PrimarySymbol(st) == st.symbols[1]

(* _get_current_position_context, on the rows l its session reads *)
GetCurrentPositionContext(l, symbol, available_usd) ==
    LET quantity == GetPositionQuantity(l, symbol)
    IN  [has_position |-> quantity > 0,
         current_quantity |-> quantity,
         average_buy_price |->
            IF quantity > 0 THEN GetAverageBuyPrice(l, symbol) ELSE NoneFrac,
         available_usd |-> available_usd,
         can_buy |-> available_usd > 0,
         can_sell |-> quantity > 0]

NoPosition ==
    [has_position |-> FALSE, current_quantity |-> 0, average_buy_price |-> NoneFrac,
     available_usd |-> 0, can_buy |-> FALSE, can_sell |-> FALSE]

NoDecision ==
    [final_decision |-> "None", reasoning |-> <<>>, risk_assessment |-> "None",
     confidence_level |-> "None", position_context_considered |-> FALSE,
     strategist_points_accepted |-> <<>>, skeptic_points_accepted |-> <<>>,
     key_factors_for_decision |-> <<>>]

NoArb == [position |-> NoPosition, before |-> <<>>, tentative |-> NoDecision]

(* What a node got from outside the state: the current price and the      *)
(* prices of the zone rows of the support/resistance node, the number of   *)
(* risks in the critique the LLM returned to the Critic.                   *)
NoInputs ==
    [price |-> NoneNum, supports |-> {}, resistances |-> {}, risks |-> NoneNum]

ZonePricesOf(zones) == {zones[i] : i \in 1..Len(zones)}

NoHist ==
    [node |-> "none", ran |-> 0, before |-> NoState, raised |-> FALSE,
     engine |-> FALSE, ledger_read |-> FALSE, inputs |-> NoInputs]


(* The runs that go on at the same time: one started by the route          *)
(* (POST /api/trading/analyze), one by the scheduler.  Each call of         *)
(* run_trading_analysis builds a dict of its own; ref is the dict a run     *)
(* holds, dict what each dict holds, pc where each run is.                  *)
RunIds == {"on_demand", "scheduled"}

NoRuns ==
    [pc |-> [r \in RunIds |-> "idle"],
     ref |-> [r \in RunIds |-> r],
     dict |-> [r \in RunIds |-> NoState]]

----------------------------------------------------------------------------
(* The nodes of the graph.  Each takes the state and the results of its    *)
(* external calls and returns the state it hands back.  No code raises     *)
(* AgentExecutorError (AgentExecutor.execute awaits the LLM bare), so a    *)
(* failing LLM call, a response the schema rejects and a failing ledger    *)
(* session leave the node as an exception: the run ends in "raised".       *)

(* crypto_news_sentiment_node *)
NewsResults == {"AlpacaNewsClientError", "llm_raises", "positive"}

CryptoNewsSentimentNode(st, r) ==
    IF r = "AlpacaNewsClientError" THEN SetError(st, "Error obteniendo noticias")
    ELSE ClearError([st EXCEPT !.news_sentiment = r])

(* technical_analysis_node *)
TechnicalResults ==
    {"sma25_IndicatorClientError", "sma200_IndicatorClientError", "no_values",
     "llm_raises", "bullish"}

TechnicalAnalysisNode(st, r) ==
    CASE r = "sma25_IndicatorClientError" -> SetError(st, "Error obteniendo SMA 25")
      [] r = "sma200_IndicatorClientError" -> SetError(st, "Error obteniendo SMA 200")
      [] r = "no_values" -> SetError(st, "No se obtuvieron suficientes datos de SMAs")
      [] OTHER -> ClearError([st EXCEPT !.technical_analysis_momentum = r])

(* fear_greed_node: get_latest raises FearGreedClientError, or returns a   *)
(* response whose data is a list of index values                           *)
FearGreedResults ==
    {[raises |-> TRUE, data |-> <<>>],
     [raises |-> FALSE, data |-> <<>>],
     [raises |-> FALSE, data |-> <<50>>]}

FearGreedNode(st, r) ==
    IF r.raises
    THEN SetError(st, "Error consultando Fear & Greed Index")
    ELSE IF r.data = <<>>
    THEN SetError(st, "No se obtuvieron datos del Fear & Greed Index")
    ELSE ClearError([st EXCEPT !.fear_greed_index = Num(r.data[1])])

(* support_resistance_node: the loops over the zone lists *)
(* The first support below the price instead of the closest one *)
RECURSIVE FirstSupportBelow(_, _, _)
FirstSupportBelow(supports, current_price, nearest) ==
    IF supports = <<>> THEN nearest
    ELSE LET price == Head(supports)
         IN  FirstSupportBelow(Tail(supports), current_price,
                               IF price < current_price /\ nearest = NoneNum
                               THEN Num(price) ELSE nearest)

RECURSIVE NearestSupport(_, _, _)
NearestSupport(supports, current_price, nearest) ==
    IF supports = <<>> THEN nearest
    ELSE LET price == Head(supports)
             closer == /\ price < current_price
                       /\ \A n \in nearest : current_price - price < current_price - n
         IN  NearestSupport(Tail(supports), current_price,
                            IF closer THEN Num(price) ELSE nearest)

RECURSIVE NearestResistance(_, _, _)
NearestResistance(resistances, current_price, nearest) ==
    IF resistances = <<>> THEN nearest
    ELSE LET price == Head(resistances)
             closer == /\ price > current_price
                       /\ \A n \in nearest : price - current_price < n - current_price
         IN  NearestResistance(Tail(resistances), current_price,
                               IF closer THEN Num(price) ELSE nearest)

(* The node failing as soon as one side is missing *)
SupportResistanceNodeBothRequired(st, price, supports, resistances) ==
    IF price = NoneNum THEN SetError(st, "No se pudo obtener el precio actual")
    ELSE
    LET current_price == CHOOSE v \in price : TRUE
        st1 == [st EXCEPT !.current_price = price]
        nearest_support == NearestSupport(supports, current_price, NoneNum)
        nearest_resistance == NearestResistance(resistances, current_price, NoneNum)
    IN  IF nearest_support = NoneNum \/ nearest_resistance = NoneNum
        THEN SetError(st1, "No se encontraron zonas validas")
        ELSE ClearError([st1 EXCEPT !.nearest_support = nearest_support,
                                    !.nearest_resistance = nearest_resistance])

(* price is what _get_current_price returns: {} for None *)
SupportResistanceNode(st, price, supports, resistances) ==
    IF price = NoneNum THEN SetError(st, "No se pudo obtener el precio actual")
    ELSE
    LET current_price == CHOOSE v \in price : TRUE
        st1 == [st EXCEPT !.current_price = price]
        nearest_support == NearestSupport(supports, current_price, NoneNum)
        nearest_resistance == NearestResistance(resistances, current_price, NoneNum)
        st2 == IF nearest_support # NoneNum
                 THEN [st1 EXCEPT !.nearest_support = nearest_support] ELSE st1
        st3 == IF nearest_resistance # NoneNum
                 THEN [st2 EXCEPT !.nearest_resistance = nearest_resistance] ELSE st2
    IN  IF supports = <<>> /\ resistances = <<>>
        THEN SetError(st1, "No se encontraron zonas")
        ELSE IF nearest_support = NoneNum /\ nearest_resistance = NoneNum
        THEN SetError(st3, "No se encontraron zonas validas")
        ELSE ClearError(st3)

(* strategist_agent_node.  _format_context_for_prompt formats the current  *)
(* price and both nearest zones with `:,.2f`, which raises on None.        *)
FormatContextRaises(st) ==
    \/ st.current_price = NoneNum
    \/ st.nearest_support = NoneNum
    \/ st.nearest_resistance = NoneNum

Directions == {"buy", "sell", "hold"}

StrategistAgentNode(st, direction) ==
    ClearError([st EXCEPT !.strategist_direction = direction,
                          !.strategist_proposal = "PROPUESTA DEL ESTRATEGA"])

(* skeptic_agent_node.  SkepticCritique.validate_risks_length rejects a    *)
(* critique with fewer than 3 or more than 7 risks.                        *)
ValidateRisksLength(n) == n >= 3 /\ n <= 7

Assessments == {"reject", "proceed_with_caution", "acceptable"}

SkepticNeedsProposalNever(st) == FALSE

SkepticNeedsProposal(st) == st.strategist_direction = "None"

(* The Critic writing its fields and dropping the proposal it criticised *)
SkepticAgentNodeDroppingProposal(st, assessment, risks) ==
    ClearError([st EXCEPT !.skeptic_recommendation = assessment,
                          !.skeptic_risks = Num(risks),
                          !.skeptic_critique = "CRITICA DEL ABOGADO DEL DIABLO",
                          !.strategist_proposal = "None"])

SkepticAgentNode(st, assessment, risks) ==
    ClearError([st EXCEPT !.skeptic_recommendation = assessment,
                          !.skeptic_risks = Num(risks),
                          !.skeptic_critique = "CRITICA DEL ABOGADO DEL DIABLO"])

ExecutorMissingInputDirectionOnly(st) ==
    IF st.strategist_direction = "None"
    THEN "No hay propuesta del Estratega para evaluar"
    ELSE "None"

(* executor_agent_node: the checks of its inputs *)
ExecutorMissingInput(st) ==
    IF st.strategist_direction = "None"
    THEN "No hay propuesta del Estratega para evaluar"
    ELSE IF st.skeptic_recommendation = "None"
    THEN "No hay critica del Abogado del Diablo para evaluar"
    ELSE "None"

(* What the LLM may return as ExecutorDecision *)
Decisions ==
    [final_decision : Directions, reasoning : {<<"reasoning">>},
     risk_assessment : {"low", "high"}, confidence_level : {"medium"},
     position_context_considered : {TRUE},
     strategist_points_accepted : {<<"strategist point">>},
     skeptic_points_accepted : {<<"skeptic point">>},
     key_factors_for_decision : {<<"factor", "factor">>}]

(* `if decision.final_decision == "buy" and position["has_position"]` *)
CoerceBuyOff(decision, position) == decision

(* The coercion firing whatever the position *)
CoerceBuyAlways(decision, position) ==
    IF decision.final_decision = "buy"
    THEN [decision EXCEPT
            !.final_decision = "hold",
            !.reasoning = <<"[AJUSTADO POR SEGURIDAD]">> \o decision.reasoning
                          \o <<"NOTA: La decision original era BUY">>]
    ELSE decision

(* The coercion leaving the reasoning text as the LLM returned it *)
CoerceBuySilent(decision, position) ==
    IF decision.final_decision = "buy" /\ position.has_position
    THEN [decision EXCEPT !.final_decision = "hold"]
    ELSE decision

(* The coercion also rewriting what the LLM said besides the decision *)
CoerceBuyRewriting(decision, position) ==
    IF decision.final_decision = "buy" /\ position.has_position
    THEN [decision EXCEPT
            !.final_decision = "hold",
            !.reasoning = <<"[AJUSTADO POR SEGURIDAD]">> \o decision.reasoning
                          \o <<"NOTA: La decision original era BUY">>,
            !.risk_assessment = "high",
            !.key_factors_for_decision = <<>>]
    ELSE decision

CoerceBuy(decision, position) ==
    IF decision.final_decision = "buy" /\ position.has_position
    THEN [decision EXCEPT
            !.final_decision = "hold",
            !.reasoning = <<"[AJUSTADO POR SEGURIDAD]">> \o decision.reasoning
                          \o <<"NOTA: La decision original era BUY">>]
    ELSE decision

(* `if decision.final_decision == "sell" and not position["has_position"]` *)
CoerceSellOff(decision, position) == decision
CoerceSell(decision, position) ==
    IF decision.final_decision = "sell" /\ ~position.has_position
    THEN [decision EXCEPT
            !.final_decision = "hold",
            !.reasoning = <<"[AJUSTADO POR SEGURIDAD]">> \o decision.reasoning
                          \o <<"NOTA: La decision original era SELL">>]
    ELSE decision

(* Steps 5 and 6 of executor_agent_node: coerce, then write the state *)
ExecutorAgentNode(st, tentative, position) ==
    LET decision == CoerceSell(CoerceBuy(tentative, position), position)
    IN  ClearError(
          [st EXCEPT
             !.executor_decision = decision.final_decision,
             !.executor_reasoning = decision.reasoning,
             !.executor_final_params =
                <<[risk_assessment |-> decision.risk_assessment,
                   confidence_level |-> decision.confidence_level,
                   position_context_considered |->
                       decision.position_context_considered,
                   has_current_position |-> position.has_position,
                   current_quantity |-> position.current_quantity,
                   available_usd |-> position.available_usd]>>,
             !.executor_decision_text =
                <<[strategist_points_accepted |->
                       decision.strategist_points_accepted,
                   skeptic_points_accepted |-> decision.skeptic_points_accepted,
                   key_factors_for_decision |->
                       decision.key_factors_for_decision]>>])


----------------------------------------------------------------------------
(* One call at a time: the whole of buy()/sell() and the session's commit *)

Init ==
    /\ ledger = <<>>
    /\ now = 0
    /\ last = NoCall
    /\ calls = [s \in Sessions |-> IdleCall]
    /\ state = NoState
    /\ pc = "idle"
    /\ arb = NoArb
    /\ hist = NoHist
    /\ runs = NoRuns

(* A call made when the clock reads t.  Only the order of the created_at    *)
(* values and their ties matter: a call reads either the value the latest   *)
(* row carries (same instant, at the column's resolution) or a later one.   *)
(* now is the latest created_at written so far.                             *)
ClockReadings == IF now = 0 THEN {1} ELSE {now, now + 1}

Buy(symbol, quantity, price, t) ==
    /\ Len(ledger) < MaxTx
    /\ \E available_usd \in GetAvailableBalance(ledger) :
          LET r == BuyCall(ledger, t, symbol, quantity, price, available_usd)
          IN  /\ ledger' = IF r.outcome = "ok" THEN SessionAdd(ledger, r.tx) ELSE ledger
              /\ last' = CallRecord("buy", symbol, quantity, price,
                                    ledger, available_usd, r)
    /\ now' = IF ledger' # ledger THEN t ELSE now
    /\ UNCHANGED <<calls, runVars>>

Sell(symbol, quantity, price, t) ==
    /\ Len(ledger) < MaxTx
    /\ \E available_usd \in GetAvailableBalance(ledger) :
          LET r == SellCall(ledger, t, symbol, quantity, price, available_usd)
          IN  /\ ledger' = IF r.outcome = "ok" THEN SessionAdd(ledger, r.tx) ELSE ledger
              /\ last' = CallRecord("sell", symbol, quantity, price,
                                    ledger, available_usd, r)
    /\ now' = IF ledger' # ledger THEN t ELSE now
    /\ UNCHANGED <<calls, runVars>>

BuyStep == \E o \in Orders, t \in ClockReadings : Buy(o[1], o[2], o[3], t)

SellStep == \E o \in Orders, t \in ClockReadings : Sell(o[1], o[2], o[3], t)

(* The read-only methods: each runs SELECT statements only *)
Queries ==
    {"get_available_balance", "get_position_quantity", "get_average_buy_price",
     "calculate_portfolio_value", "get_all_transactions"}

Query(q) ==
    /\ last' = [NoCall EXCEPT !.op = q, !.before = ledger, !.outcome = "ok"]
    /\ UNCHANGED <<ledger, now, calls, runVars>>

QueryStep == \E q \in Queries : Query(q)

(* The windows asked for, in days *)
WindowDays == {0, 1, 2}

(* get_pnl_summary(days), called at time t *)
PnlSummary(days, t) ==
    /\ last' = [NoCall EXCEPT !.op = "get_pnl_summary", !.before = ledger,
                              !.outcome = "ok", !.clock = t,
                              !.summary = GetPnlSummary(ledger, t, days)]
    /\ UNCHANGED <<ledger, now, calls, runVars>>

PnlSummaryStep == \E days \in WindowDays, t \in ClockReadings : PnlSummary(days, t)

Next == BuyStep \/ SellStep \/ QueryStep \/ PnlSummaryStep

Spec == Init /\ [][Next]_vars

(* The same calls with any numbers as arguments: buy() and sell() take     *)
(* floats and nothing on the way to them checks their sign.                *)
AnyOrders == {"BTCUSD", "ETHUSD"} \X {0, 1} \X {0, 2500}

AnyBuyStep == \E o \in AnyOrders, t \in ClockReadings : Buy(o[1], o[2], o[3], t)

AnySellStep == \E o \in AnyOrders, t \in ClockReadings : Sell(o[1], o[2], o[3], t)

AnyNext == AnyBuyStep \/ AnySellStep

AnySpec == Init /\ [][AnyNext]_vars

----------------------------------------------------------------------------
(* Concurrent sessions.  Each caller opens its own session (get_db_session, *)
(* AsyncSessionLocal): the body of buy()/sell() reads the committed rows,   *)
(* builds its row and flushes it inside the session's transaction; the row  *)
(* reaches the table when the caller commits.  Nothing is locked between.   *)

ConcOrders == {"BTCUSD"} \X {1, 2} \X Prices

InFlight == Cardinality({s \in Sessions : calls[s].pc = "flushed"})

CallOf(phase, rec) ==
    [pc |-> phase, op |-> rec.op, symbol |-> rec.symbol, quantity |-> rec.quantity,
     price |-> rec.price, before |-> rec.before, available_usd |-> rec.available_usd,
     outcome |-> rec.outcome, tx |-> rec.tx]

(* A call that raised: the session rolls back, only the exception is left *)
Raised(op, r) == [IdleCall EXCEPT !.pc = "raised", !.op = op, !.outcome = r.outcome]

BuyBody(s, symbol, quantity, price, t) ==
    /\ calls[s].pc # "flushed"
    /\ Len(ledger) + InFlight < MaxTx
    /\ \E available_usd \in GetAvailableBalance(ledger) :
          LET r == BuyCall(ledger, t, symbol, quantity, price, available_usd)
          IN  /\ calls' =
                    [calls EXCEPT ![s] =
                        IF r.outcome = "ok"
                        THEN CallOf("flushed",
                                    CallRecord("buy", symbol, quantity, price,
                                               ledger, available_usd, r))
                        ELSE Raised("buy", r)]
              /\ now' = IF r.outcome = "ok" THEN t ELSE now
    /\ UNCHANGED <<ledger, last, runVars>>

SellBody(s, symbol, quantity, price, t) ==
    /\ calls[s].pc # "flushed"
    /\ Len(ledger) + InFlight < MaxTx
    /\ \E available_usd \in GetAvailableBalance(ledger) :
          LET r == SellCall(ledger, t, symbol, quantity, price, available_usd)
          IN  /\ calls' =
                    [calls EXCEPT ![s] =
                        IF r.outcome = "ok"
                        THEN CallOf("flushed",
                                    CallRecord("sell", symbol, quantity, price,
                                               ledger, available_usd, r))
                        ELSE Raised("sell", r)]
              /\ now' = IF r.outcome = "ok" THEN t ELSE now
    /\ UNCHANGED <<ledger, last, runVars>>

(* `await session.commit()`: what has to hold for the commit to go through. *)
(* The session holds no lock and the check of the body is not repeated.     *)
CommitAllowedRechecked(s) ==
    /\ calls[s].pc = "flushed"
    /\ calls[s].op = "sell" =>
          ~InsufficientQuantity(calls[s].quantity,
                                GetPositionQuantity(ledger, calls[s].symbol))
    /\ calls[s].op = "buy" =>
          \E b \in GetAvailableBalance(ledger) :
              ~InsufficientFunds(calls[s].quantity * calls[s].price, b)
CommitAllowed(s) == calls[s].pc = "flushed"

(* A commit that rebuilt the snapshot on the balance at commit time.  The  *)
(* session in the source commits the row as buy() or sell() built it.      *)
CommitRebasing(s) ==
    /\ CommitAllowed(s)
    /\ \E available_usd \in GetAvailableBalance(ledger) :
          ledger' = SessionAdd(ledger,
                       [calls[s].tx EXCEPT !.available_usd =
                           IF calls[s].op = "buy"
                           THEN available_usd - calls[s].tx.total
                           ELSE available_usd + calls[s].tx.total])
    /\ calls' = [calls EXCEPT ![s].pc = "committed"]
    /\ UNCHANGED <<now, last, runVars>>

Commit(s) ==
    /\ CommitAllowed(s)
    /\ ledger' = SessionAdd(ledger, calls[s].tx)
    /\ calls' = [calls EXCEPT ![s].pc = "committed"]
    /\ UNCHANGED <<now, last, runVars>>

BuyBodyStep ==
    \E s \in Sessions, o \in ConcOrders, t \in ClockReadings :
        BuyBody(s, o[1], o[2], o[3], t)

SellBodyStep ==
    \E s \in Sessions, o \in ConcOrders, t \in ClockReadings :
        SellBody(s, o[1], o[2], o[3], t)

CommitStep == \E s \in Sessions : Commit(s)

ConcNext == BuyBodyStep \/ SellBodyStep \/ CommitStep

ConcSpec == Init /\ [][ConcNext]_vars

----------------------------------------------------------------------------
(* One pipeline run (run_trading_analysis): the graph executes its nodes   *)
(* in the order of its edges.  Other callers buy and sell meanwhile; the   *)
(* first four nodes neither read nor write the ledger, so those calls are  *)
(* taken from the strategist on.                                           *)

MaxZones == 2       \* zones of one type the table may hold
MaxRunTx == 2       \* rows the ledger may hold while a run is going

RunSymbols == {<<"BTCUSD">>, <<"ETHUSD">>}
RunOrders == {<<"BTCUSD", 1, 5000>>, <<"ETHUSD", 1, 5000>>}
CurrentPrices == {3}
SupportPrices == {1, 2, 3}
ResistancePrices == {3, 4, 5}
ZoneLists(prices) == UNION {[1..n -> prices] : n \in 0..MaxZones}
SessionResults == {"ok", "OperationalError"}
RiskCounts == {2, 3, 7, 8}

(* build_trading_graph: the edges it adds.  A node runs in the step after   *)
(* the node an edge leads from; a node no edge leads from ends the run.     *)
EdgesBranchingBack ==
    {<<"START", "news_analysis">>,
     <<"news_analysis", "technical_analysis">>,
     <<"technical_analysis", "fear_greed_analysis">>,
     <<"fear_greed_analysis", "support_resistance_analysis">>,
     <<"support_resistance_analysis", "strategist">>,
     <<"strategist", "END">>,
     <<"strategist", "skeptic">>,
     <<"skeptic", "executor">>,
     <<"executor", "strategist">>}
Edges ==
    {<<"START", "news_analysis">>,
     <<"news_analysis", "technical_analysis">>,
     <<"technical_analysis", "fear_greed_analysis">>,
     <<"fear_greed_analysis", "support_resistance_analysis">>,
     <<"support_resistance_analysis", "strategist">>,
     <<"strategist", "END">>,
     <<"strategist", "skeptic">>,
     <<"skeptic", "executor">>}

(* The nodes that run after node *)
Targets(node) == {e[2] : e \in {e \in Edges : e[1] = node}} \ {"END"}

NextNode(node) ==
    IF Targets(node) = {} THEN "END" ELSE CHOOSE target \in Targets(node) : TRUE

(* What the run keeps of the node it invoked last: the node, how many      *)
(* nodes the run has invoked, the state handed to the node, whether the     *)
(* node raised, and whether it called agent_executor.execute / opened a     *)
(* session on the ledger.                                                   *)
Invocation(node, raised, engine, ledger_read) ==
    [node |-> node, ran |-> hist.ran + 1, before |-> state, raised |-> raised,
     engine |-> engine, ledger_read |-> ledger_read, inputs |-> NoInputs]

(* The same, with what the node got from outside *)
InvocationWith(node, raised, engine, ledger_read, inputs) ==
    [Invocation(node, raised, engine, ledger_read) EXCEPT !.inputs = inputs]

(* An exception leaves the node: ainvoke raises, the run is over *)
Raise(node, engine, ledger_read) ==
    /\ pc' = "raised"
    /\ hist' = Invocation(node, TRUE, engine, ledger_read)
    /\ UNCHANGED <<state, arb>>

(* The node returns st: the graph goes on with the next node *)
Return(node, st, engine, ledger_read) ==
    /\ state' = st
    /\ pc' = NextNode(node)
    /\ hist' = Invocation(node, FALSE, engine, ledger_read)
    /\ UNCHANGED arb

StartRun(symbols) ==
    /\ pc = "idle"
    /\ state' = InitialState(symbols, 10)
    /\ pc' = NextNode("START")
    /\ UNCHANGED <<arb, hist, ledgerVars, runs>>

NewsAnalysis ==
    /\ pc = "news_analysis"
    /\ \E r \in NewsResults :
          IF r = "llm_raises" THEN Raise(pc, TRUE, FALSE)
          ELSE Return(pc, CryptoNewsSentimentNode(state, r),
                      r # "AlpacaNewsClientError", FALSE)
    /\ UNCHANGED <<ledgerVars, runs>>

TechnicalAnalysis ==
    /\ pc = "technical_analysis"
    /\ \E r \in TechnicalResults :
          IF r = "llm_raises" THEN Raise(pc, TRUE, FALSE)
          ELSE Return(pc, TechnicalAnalysisNode(state, r), r = "bullish", FALSE)
    /\ UNCHANGED <<ledgerVars, runs>>

FearGreedAnalysis ==
    /\ pc = "fear_greed_analysis"
    /\ \E r \in FearGreedResults : Return(pc, FearGreedNode(state, r), FALSE, FALSE)
    /\ UNCHANGED <<ledgerVars, runs>>

SupportResistanceAnalysis ==
    /\ pc = "support_resistance_analysis"
    /\ \E price \in {NoneNum} \cup {Num(v) : v \in CurrentPrices},
          supports \in ZoneLists(SupportPrices),
          resistances \in ZoneLists(ResistancePrices),
          db \in SessionResults :
          IF price # NoneNum /\ db = "OperationalError"
          THEN /\ state' = [state EXCEPT !.current_price = price]
               /\ pc' = "raised"
               /\ hist' = InvocationWith(pc, TRUE, FALSE, FALSE,
                                         [NoInputs EXCEPT !.price = price])
               /\ UNCHANGED arb
          ELSE /\ state' = SupportResistanceNode(state, price, supports, resistances)
               /\ pc' = NextNode(pc)
               /\ hist' = InvocationWith(pc, FALSE, FALSE, FALSE,
                                         [NoInputs EXCEPT
                                            !.price = price,
                                            !.supports =
                                                IF price = NoneNum THEN {}
                                                ELSE ZonePricesOf(supports),
                                            !.resistances =
                                                IF price = NoneNum THEN {}
                                                ELSE ZonePricesOf(resistances)])
               /\ UNCHANGED arb
    /\ UNCHANGED <<ledgerVars, runs>>

Strategist ==
    /\ pc = "strategist"
    /\ \E db \in SessionResults, llm \in {"llm_raises"} \cup Directions :
          IF db = "OperationalError" \/ FormatContextRaises(state)
          THEN Raise(pc, FALSE, TRUE)
          ELSE IF llm = "llm_raises"
          THEN Raise(pc, TRUE, TRUE)
          ELSE Return(pc, StrategistAgentNode(state, llm), TRUE, TRUE)
    /\ UNCHANGED <<ledgerVars, runs>>

Skeptic ==
    /\ pc = "skeptic"
    /\ IF SkepticNeedsProposal(state)
       THEN Return(pc, SetError(state, "No hay propuesta del Estratega para criticar"),
                   FALSE, FALSE)
       ELSE \E db \in SessionResults, llm \in {"llm_raises", "ok"},
               assessment \in Assessments, risks \in RiskCounts :
               IF db = "OperationalError"
               THEN Raise(pc, FALSE, TRUE)
               ELSE IF llm = "llm_raises"
               THEN Raise(pc, TRUE, TRUE)
               ELSE IF ~ValidateRisksLength(risks)
               THEN /\ pc' = "raised"
                    /\ hist' = InvocationWith(pc, TRUE, TRUE, TRUE,
                                              [NoInputs EXCEPT !.risks = Num(risks)])
                    /\ UNCHANGED <<state, arb>>
               ELSE /\ state' = SkepticAgentNode(state, assessment, risks)
                    /\ pc' = NextNode(pc)
                    /\ hist' = InvocationWith(pc, FALSE, TRUE, TRUE,
                                              [NoInputs EXCEPT !.risks = Num(risks)])
                    /\ UNCHANGED arb
    /\ UNCHANGED <<ledgerVars, runs>>

(* executor_agent_node up to its await of the LLM: the checks and the one  *)
(* read of the position                                                    *)
ExecutorBegin ==
    /\ pc = "executor"
    /\ IF ExecutorMissingInput(state) # "None"
       THEN Return(pc, SetError(state, ExecutorMissingInput(state)), FALSE, FALSE)
       ELSE \E db \in SessionResults, available_usd \in GetAvailableBalance(ledger) :
               IF db = "OperationalError"
               THEN Return(pc, SetError(state, "Error al consultar posicion"),
                           FALSE, TRUE)
               ELSE /\ arb' = [position |->
                                  GetCurrentPositionContext(
                                      ledger, PrimarySymbol(state), available_usd),
                               before |-> ledger,
                               tentative |-> NoDecision]
                    /\ pc' = "executor_llm"
                    /\ hist' = Invocation(pc, FALSE, FALSE, TRUE)
                    /\ UNCHANGED state
    /\ UNCHANGED <<ledgerVars, runs>>

(* An Arbiter that acted on its decision: a buy or sell row is appended.   *)
(* The node in the source does not do this.                                *)
ExecutorFinishTrading ==
    /\ pc = "executor_llm"
    /\ \E tentative \in Decisions :
          /\ state' = ExecutorAgentNode(state, tentative, arb.position)
          /\ arb' = [arb EXCEPT !.tentative = tentative]
          /\ pc' = NextNode("executor")
          /\ hist' = [hist EXCEPT !.engine = TRUE]
          /\ ledger' =
                IF state'.executor_decision = "hold" THEN ledger
                ELSE SessionAdd(ledger,
                                BuyTransaction(ledger, now + 1, PrimarySymbol(state),
                                               1, 0, DefaultBalance))
    /\ UNCHANGED <<now, last, calls, runs>>

(* An Arbiter that read the position again after the LLM answered.  The    *)
(* node in the source coerces with the `position` it read before the call. *)
ExecutorFinishRereading ==
    /\ pc = "executor_llm"
    /\ \E tentative \in Decisions, available_usd \in GetAvailableBalance(ledger) :
          /\ state' = ExecutorAgentNode(
                          state, tentative,
                          GetCurrentPositionContext(ledger, PrimarySymbol(state),
                                                    available_usd))
          /\ arb' = [arb EXCEPT !.tentative = tentative]
          /\ pc' = NextNode("executor")
          /\ hist' = [hist EXCEPT !.engine = TRUE]
    /\ UNCHANGED <<ledgerVars, runs>>

(* executor_agent_node from the LLM's answer on *)
ExecutorFinish ==
    /\ pc = "executor_llm"
    /\ \/ /\ pc' = "raised"
          /\ hist' = [hist EXCEPT !.raised = TRUE, !.engine = TRUE]
          /\ UNCHANGED <<state, arb>>
       \/ \E tentative \in Decisions :
             /\ state' = ExecutorAgentNode(state, tentative, arb.position)
             /\ arb' = [arb EXCEPT !.tentative = tentative]
             /\ pc' = NextNode("executor")
             /\ hist' = [hist EXCEPT !.engine = TRUE]
    /\ UNCHANGED <<ledgerVars, runs>>

(* analyze_trading (POST /api/trading/analyze) after the run returned.     *)
(* TradingAnalysisResponse declares the fields below and no `extra`        *)
(* setting, so the model drops every other keyword it is built with.       *)
ResponseFields ==
    {"success", "symbols", "error_message", "news_analysis", "technical_analysis",
     "fear_greed", "support_resistance", "strategist_proposal"}

TradingAnalysisResponse(kwargs) ==
    [k \in (DOMAIN kwargs) \cap ResponseFields |-> kwargs[k]]

(* `final_state.get("executor_final_params", {}).get(key)` *)
FinalParam(final_state, key) ==
    IF final_state.executor_final_params = <<>> THEN "None"
    ELSE final_state.executor_final_params[1][key]

AnalyzeTrading(final_state) ==
    IF final_state.error_message # "None"
    THEN TradingAnalysisResponse(
            [success |-> FALSE, symbols |-> final_state.symbols,
             error_message |-> final_state.error_message])
    ELSE TradingAnalysisResponse(
            [success |-> TRUE, symbols |-> final_state.symbols,
             error_message |-> "None",
             news_analysis |-> [sentiment |-> final_state.news_sentiment],
             technical_analysis |->
                [momentum |-> final_state.technical_analysis_momentum],
             fear_greed |-> [index |-> final_state.fear_greed_index],
             support_resistance |->
                [nearest_support |-> final_state.nearest_support,
                 nearest_resistance |-> final_state.nearest_resistance],
             strategist_proposal |->
                [direction |-> final_state.strategist_direction,
                 proposal_text |-> final_state.strategist_proposal],
             skeptic_critique |->
                [overall_assessment |-> final_state.skeptic_recommendation,
                 critique_text |-> final_state.skeptic_critique,
                 identified_risks |-> final_state.skeptic_risks],
             executor_decision |->
                [final_decision |-> final_state.executor_decision,
                 reasoning |-> final_state.executor_reasoning,
                 risk_assessment |-> FinalParam(final_state, "risk_assessment"),
                 confidence_level |-> FinalParam(final_state, "confidence_level"),
                 has_current_position |->
                    FinalParam(final_state, "has_current_position")]])

Deliberating == pc \in {"strategist", "skeptic", "executor", "executor_llm"}

RunBuy ==
    /\ Deliberating
    /\ Len(ledger) < MaxRunTx
    /\ \E o \in RunOrders, t \in ClockReadings : Buy(o[1], o[2], o[3], t)

RunSell ==
    /\ Deliberating
    /\ Len(ledger) < MaxRunTx
    /\ \E o \in RunOrders, t \in ClockReadings : Sell(o[1], o[2], o[3], t)

RunStart == \E symbols \in RunSymbols : StartRun(symbols)

RunNext ==
    \/ RunStart
    \/ NewsAnalysis
    \/ TechnicalAnalysis
    \/ FearGreedAnalysis
    \/ SupportResistanceAnalysis
    \/ Strategist
    \/ Skeptic
    \/ ExecutorBegin
    \/ ExecutorFinish
    \/ RunBuy
    \/ RunSell

RunSpec == Init /\ [][RunNext]_vars

----------------------------------------------------------------------------
(* One node invoked on a given state.  A node is a function of the state   *)
(* it is handed, so it is also taken on states that lack what the nodes    *)
(* before it write, with the error slot set or not; the graph then goes on *)
(* from the node as in a run.  Nothing else touches the ledger meanwhile.  *)

(* The stages in the order the pipeline is to run them *)
StageOrder ==
    <<"news_analysis", "technical_analysis", "fear_greed_analysis",
      "support_resistance_analysis", "strategist", "skeptic", "executor">>

(* Has the node written its result into st *)
StageWrote(node, st) ==
    CASE node = "news_analysis" -> st.news_sentiment # "None"
      [] node = "technical_analysis" -> st.technical_analysis_momentum # "None"
      [] node = "fear_greed_analysis" -> st.fear_greed_index # NoneNum
      [] node = "support_resistance_analysis" ->
            st.nearest_support # NoneNum \/ st.nearest_resistance # NoneNum
      [] node = "strategist" -> st.strategist_direction # "None"
      [] node = "skeptic" -> st.skeptic_recommendation # "None"
      [] OTHER -> st.executor_decision # "None"

MarketContexts ==
    {[news |-> "None", momentum |-> "None", index |-> NoneNum],
     [news |-> "positive", momentum |-> "bullish", index |-> Num(50)]}

ZoneContexts ==
    {[price |-> NoneNum, support |-> NoneNum, resistance |-> NoneNum],
     [price |-> Num(3), support |-> Num(2), resistance |-> NoneNum],
     [price |-> Num(3), support |-> Num(2), resistance |-> Num(4)]}

Contexts ==
    {[InitialState(<<"BTCUSD">>, 10) EXCEPT
        !.news_sentiment = m.news,
        !.technical_analysis_momentum = m.momentum,
        !.fear_greed_index = m.index,
        !.current_price = z.price,
        !.nearest_support = z.support,
        !.nearest_resistance = z.resistance,
        !.strategist_direction = d,
        !.strategist_proposal = IF d = "None" THEN "None" ELSE "PROPUESTA DEL ESTRATEGA",
        !.skeptic_recommendation = a,
        !.skeptic_risks = IF a = "None" THEN NoneNum ELSE Num(3),
        !.skeptic_critique =
            IF a = "None" THEN "None" ELSE "CRITICA DEL ABOGADO DEL DIABLO",
        !.error_message = e] :
     m \in MarketContexts, z \in ZoneContexts, d \in {"None", "buy"},
     a \in {"None", "acceptable"}, e \in {"None", "Error de una etapa anterior"}}

(* The ledgers a node may find: empty, or holding one lot of BTCUSD *)
NodeLedgers ==
    {<<>>, <<BuyTransaction(<<>>, 1, "BTCUSD", 1, 5000, DefaultBalance)>>}

NodeInit ==
    /\ ledger \in NodeLedgers
    /\ now = Len(ledger)
    /\ last = NoCall
    /\ calls = [s \in Sessions |-> IdleCall]
    /\ pc \in {StageOrder[i] : i \in 1..Len(StageOrder)}
    /\ state \in {st \in Contexts : ~StageWrote(pc, st)}
    /\ arb = NoArb
    /\ hist = NoHist
    /\ runs = NoRuns

NodeNext ==
    \/ NewsAnalysis
    \/ TechnicalAnalysis
    \/ FearGreedAnalysis
    \/ SupportResistanceAnalysis
    \/ Strategist
    \/ Skeptic
    \/ ExecutorBegin
    \/ ExecutorFinish

NodeSpec == NodeInit /\ [][NodeNext]_vars

----------------------------------------------------------------------------
(* Properties of the ledger, one call at a time (Spec) *)

LastRow == ledger[Len(ledger)]

(* C3: sell(symbol, q, p) fails with InsufficientQuantity if and only if   *)
(* q > position(symbol); a sell with q = position(symbol) succeeds and     *)
(* leaves position(symbol) = 0.                                            *)
C3_SellFailsIffExceedsPosition ==
    last.op = "sell" =>
        LET position == GetPositionQuantity(last.before, last.symbol)
        IN  /\ last.outcome \in {"ok", "InsufficientQuantity"}
            /\ (last.outcome = "InsufficientQuantity") <=> (last.quantity > position)
            /\ last.outcome = "InsufficientQuantity" => ledger = last.before
            /\ last.quantity = position =>
                    /\ last.outcome = "ok"
                    /\ GetPositionQuantity(ledger, last.symbol) = 0

C3_Witness ==
    /\ last.op = "sell"
    /\ last.outcome = "ok"
    /\ last.quantity = GetPositionQuantity(last.before, last.symbol)
    /\ GetPositionQuantity(ledger, last.symbol) = 0

(* C4: buy(symbol, q, p) fails with InsufficientFunds if and only if q*p   *)
(* exceeds the balance get_available_balance returns to the call; a buy    *)
(* with q*p equal to that balance succeeds.                                *)
C4_BuyFailsIffExceedsBalance ==
    last.op = "buy" =>
        /\ last.available_usd \in GetAvailableBalance(last.before)
        /\ last.outcome \in {"ok", "InsufficientFunds"}
        /\ (last.outcome = "InsufficientFunds")
              <=> (last.quantity * last.price > last.available_usd)
        /\ last.outcome = "InsufficientFunds" => ledger = last.before
        /\ last.quantity * last.price = last.available_usd =>
                /\ last.outcome = "ok"
                /\ Len(ledger) = Len(last.before) + 1

C4_Witness ==
    /\ last.op = "buy"
    /\ last.outcome = "ok"
    /\ last.quantity * last.price = last.available_usd
    /\ GetAvailableBalance(last.before) = {last.available_usd}

(* C5: balance() returns the balance snapshot of the most recent           *)
(* transaction whenever the ledger is non-empty, and the 10,000 default    *)
(* only when the ledger is empty; after a buy whose cost equals the whole  *)
(* balance, balance() returns 0.                                           *)
C5_BalanceIsLatestSnapshot ==
    /\ ledger = <<>> => GetAvailableBalance(ledger) = {DefaultBalance}
    /\ ledger # <<>> => GetAvailableBalance(ledger) = {LastRow.available_usd}
    /\ (/\ last.op = "buy"
        /\ last.outcome = "ok"
        /\ last.quantity * last.price = last.available_usd)
            => GetAvailableBalance(ledger) = {0}

(* C6: after any sequence of buy and sell calls made one at a time,        *)
(* position(symbol) >= 0 for every symbol.                                 *)
C6_PositionNeverNegative ==
    \A symbol \in Symbols : GetPositionQuantity(ledger, symbol) >= 0

C6_Witness ==
    /\ last.op = "sell"
    /\ last.outcome = "InsufficientQuantity"
    /\ \E i \in 1..Len(ledger) :
          ledger[i].action = "sell" /\ ledger[i].symbol = last.symbol
    /\ GetPositionQuantity(ledger, last.symbol) = 0

(* C7: after any sequence of buy and sell calls made one at a time,        *)
(* balance() >= 0 and the available-balance snapshot of every transaction  *)
(* is >= 0.                                                                *)
C7_BalanceNeverNegative ==
    /\ \A b \in GetAvailableBalance(ledger) : b >= 0
    /\ \A i \in 1..Len(ledger) : ledger[i].available_usd >= 0

C7_Witness ==
    /\ last.op = "buy"
    /\ last.outcome = "InsufficientFunds"
    /\ ledger # <<>>
    /\ \A i \in 1..Len(ledger) : ledger[i].available_usd > 0

(* C9: a successful buy(symbol, q, p) appends exactly one transaction with *)
(* action buy, total = q*p, PnL = none and balance snapshot = (balance()   *)
(* before the call) - q*p; afterwards balance() equals that snapshot and   *)
(* position(symbol) has grown by q.                                        *)
C9_BuyAppendsSnapshot ==
    (last.op = "buy" /\ last.outcome = "ok") =>
        /\ Len(ledger) = Len(last.before) + 1
        /\ SubSeq(ledger, 1, Len(last.before)) = last.before
        /\ LastRow.action = "buy"
        /\ LastRow.symbol = last.symbol
        /\ LastRow.total = last.quantity * last.price
        /\ IsNone(LastRow.pnl)
        /\ last.available_usd \in GetAvailableBalance(last.before)
        /\ LastRow.available_usd = last.available_usd - last.quantity * last.price
        /\ GetAvailableBalance(ledger) = {LastRow.available_usd}
        /\ GetPositionQuantity(ledger, last.symbol)
             = GetPositionQuantity(last.before, last.symbol) + last.quantity

(* C10: a successful sell(symbol, q, p) appends exactly one transaction    *)
(* with balance snapshot = (balance() before the call) + q*p and           *)
(* PnL = (p - averageBuyPrice(symbol)) * q, the average taken over all buy *)
(* transactions of the symbol present at the time of the sell (sold or     *)
(* not); PnL is none only if no buy exists.                                *)
C10_SellAppendsSnapshotAndPnl ==
    (last.op = "sell" /\ last.outcome = "ok") =>
        LET bought == SumQuantity(last.before, last.symbol, "buy")
            cost == SumCost(last.before, last.symbol, "buy")
        IN  /\ Len(ledger) = Len(last.before) + 1
            /\ SubSeq(ledger, 1, Len(last.before)) = last.before
            /\ LastRow.action = "sell"
            /\ LastRow.symbol = last.symbol
            /\ last.available_usd \in GetAvailableBalance(last.before)
            /\ LastRow.available_usd
                 = last.available_usd + last.quantity * last.price
            /\ IsNone(LastRow.pnl) <=> (bought = 0)
            /\ bought > 0 =>
                  \* pnl = (p - cost/bought) * q, cross-multiplied
                  LastRow.pnl.num * bought
                    = (last.price * bought - cost) * last.quantity * LastRow.pnl.den

C10_Witness ==
    /\ last.op = "sell"
    /\ last.outcome = "ok"
    /\ \E i \in 1..Len(last.before) :
          last.before[i].action = "sell" /\ last.before[i].symbol = last.symbol
    /\ ~IsNone(LastRow.pnl)
    /\ LastRow.pnl.num # 0

----------------------------------------------------------------------------
(* Properties of concurrent sessions (ConcSpec) *)

(* C8: when calls of two sessions interleave, nothing holds back a call    *)
(* that passed its check on a stale read: whatever has been committed      *)
(* since, its commit can go through (no lock, no repeated check), so two   *)
(* sells of q each with position q both append.                            *)
C8_StaleCheckStillCommits ==
    \A s \in Sessions : calls[s].pc = "flushed" => ENABLED Commit(s)

C8_Witness ==
    \E s1 \in Sessions, s2 \in Sessions :
        /\ s1 # s2
        /\ calls[s1].pc = "committed" /\ calls[s2].pc = "committed"
        /\ calls[s1].op = "sell" /\ calls[s2].op = "sell"
        /\ calls[s1].symbol = calls[s2].symbol
        /\ calls[s1].before = calls[s2].before
        /\ calls[s1].quantity = GetPositionQuantity(calls[s1].before, calls[s1].symbol)
        /\ calls[s2].quantity = calls[s1].quantity
        /\ GetPositionQuantity(ledger, calls[s1].symbol) < 0

----------------------------------------------------------------------------
(* Properties of a pipeline run (RunSpec) *)

(* The position of the run's primary symbol when the Arbiter step read it *)
PositionBeforeArbiter == GetPositionQuantity(arb.before, PrimarySymbol(state))

ArbiterDecided == pc = "END" /\ state.executor_decision # "None"

(* C1: if position(symbol) > 0 for the run's primary symbol before the     *)
(* Arbiter step, the final decision the Arbiter writes is never buy: a     *)
(* tentative buy is forced to hold.                                        *)
C1_NoBuyWithPosition ==
    (ArbiterDecided /\ PositionBeforeArbiter > 0) =>
        /\ state.executor_decision # "buy"
        /\ arb.tentative.final_decision = "buy" => state.executor_decision = "hold"

C1_Witness ==
    /\ ArbiterDecided
    /\ PositionBeforeArbiter > 0
    /\ arb.tentative.final_decision = "buy"
    /\ state.executor_decision = "hold"

(* C2: if position(symbol) = 0 for the run's primary symbol before the     *)
(* Arbiter step, the final decision the Arbiter writes is never sell: a    *)
(* tentative sell is forced to hold.                                       *)
C2_NoSellWithoutPosition ==
    (ArbiterDecided /\ PositionBeforeArbiter = 0) =>
        /\ state.executor_decision # "sell"
        /\ arb.tentative.final_decision = "sell" => state.executor_decision = "hold"

C2_Witness ==
    /\ ArbiterDecided
    /\ PositionBeforeArbiter = 0
    /\ arb.tentative.final_decision = "sell"
    /\ state.executor_decision = "hold"

----------------------------------------------------------------------------
(* Further properties of the ledger, one call at a time (Spec) *)

(* The buy rows of symbol in l, and the sum of a sequence of numbers *)
BuysOf(l, symbol) == SelectSeq(l, LAMBDA r : r.symbol = symbol /\ r.action = "buy")

RECURSIVE SeqSum(_)
SeqSum(s) == IF s = <<>> THEN 0 ELSE Head(s) + SeqSum(Tail(s))

(* C11: averageBuyPrice(symbol) is none if the ledger holds no buy of the  *)
(* symbol, and otherwise equals (sum of quantity*price over all its buys)  *)
(* / (sum of quantity over all its buys); a sell, and a transaction of     *)
(* another symbol, never change it.                                        *)
C11_AverageOverAllBuys ==
    \A symbol \in Symbols :
        LET buys == BuysOf(ledger, symbol)
            cost == SeqSum([i \in 1..Len(buys) |-> buys[i].quantity * buys[i].price])
            quantity == SeqSum([i \in 1..Len(buys) |-> buys[i].quantity])
            avg == GetAverageBuyPrice(ledger, symbol)
        IN  /\ IsNone(avg) <=> (buys = <<>>)
            /\ buys # <<>> => /\ avg.den > 0
                              /\ avg.num * quantity = cost * avg.den
            /\ (last.op = "sell" \/ (last.op = "buy" /\ last.symbol # symbol)) =>
                   avg = GetAverageBuyPrice(last.before, symbol)

C11_Witness ==
    /\ last.op = "sell"
    /\ last.outcome = "ok"
    /\ last.symbol = "BTCUSD"
    /\ Len(BuysOf(ledger, "BTCUSD")) = 2
    /\ GetAverageBuyPrice(ledger, "BTCUSD") = Frac(3750, 1)
    /\ IsNone(GetAverageBuyPrice(ledger, "ETHUSD"))

(* C12: the ledger is append-only.  No call changes or removes a row that  *)
(* is there; a successful buy or sell adds exactly one row; a buy or sell  *)
(* that fails, and every query, leaves the rows as they were.              *)
C12_AppendOnly ==
    [][/\ Len(ledger') >= Len(ledger)
       /\ SubSeq(ledger', 1, Len(ledger)) = ledger
       /\ IF last'.op \in {"buy", "sell"} /\ last'.outcome = "ok"
          THEN /\ Len(ledger') = Len(ledger) + 1
               /\ ledger'[Len(ledger')] = last'.tx
          ELSE ledger' = ledger]_vars

C12_Witness ==
    /\ Len(ledger) = MaxTx
    /\ last.op \in Queries
    /\ last.before = ledger

(* C13: the portfolio-value snapshot of every transaction equals the       *)
(* balance after the transaction plus (position of the traded symbol after *)
(* the transaction) * (price of the transaction): a buy counts the lot it  *)
(* bought exactly once.  Stated for the row each successful call appends.  *)
C13_PortfolioValueConsistent ==
    (last.op \in {"buy", "sell"} /\ last.outcome = "ok") =>
        LastRow.portfolio_value
            = LastRow.available_usd
              + GetPositionQuantity(ledger, LastRow.symbol) * LastRow.price

----------------------------------------------------------------------------
(* Further properties of a pipeline run (RunSpec) *)

(* The place of the run in that order: 0 before the first stage, 8 after   *)
(* the last; the Arbiter waiting for the LLM is still the seventh stage.   *)
StagePosition(at) ==
    IF at = "idle" THEN 0
    ELSE IF at \in {"END", "raised"} THEN Len(StageOrder) + 1
    ELSE IF at = "executor_llm" THEN Len(StageOrder)
    ELSE CHOOSE i \in 1..Len(StageOrder) : StageOrder[i] = at

RunEnded == pc \in {"END", "raised"}

(* C15: the orchestrator does not look at the error slot between stages:   *)
(* in every run, whatever stages fail by setting the error slot, all seven *)
(* stages are invoked before the run ends.                                 *)
C15_AllStagesInvoked == RunEnded => hist.ran = Len(StageOrder)

(* C16: errors are recorded, not thrown across stage boundaries.  Whatever *)
(* external call of a stage fails (market data, the LLM or the validation  *)
(* of its answer, a ledger query), the stage returns and no exception      *)
(* reaches the orchestrator.                                               *)
C16_NoExceptionReachesOrchestrator == ~hist.raised /\ pc # "raised"

(* C17: at the end of a run the result reported to the caller is           *)
(* success=false with the message of the error slot if the slot is set,    *)
(* and otherwise success=true with the decision bundle, which includes the *)
(* Arbiter's final decision, reasoning, risk assessment and confidence.    *)
(* Stated for the runs that return (pc = "END").                           *)
C17_ResultReported ==
    pc = "END" =>
        LET response == AnalyzeTrading(state)
        IN  IF state.error_message # "None"
            THEN /\ ~response.success
                 /\ response.error_message = state.error_message
            ELSE /\ response.success
                 /\ "executor_decision" \in DOMAIN response
                 /\ response.executor_decision.final_decision = state.executor_decision
                 /\ response.executor_decision.reasoning = state.executor_reasoning
                 /\ response.executor_decision.risk_assessment
                        = arb.tentative.risk_assessment
                 /\ response.executor_decision.confidence_level
                        = arb.tentative.confidence_level

----------------------------------------------------------------------------
(* Properties of one node on a given state (NodeSpec) *)

(* The last node invoked returned the state it was handed with nothing but *)
(* the error slot written, and that slot set                               *)
OnlyErrorSet ==
    /\ ~hist.raised
    /\ state.error_message # "None"
    /\ [state EXCEPT !.error_message = hist.before.error_message] = hist.before

(* C18: the Critic invoked on a state without the Proposer's direction     *)
(* sets the error slot and returns the state otherwise unchanged (no       *)
(* assessment, risks or critique text written), having called neither the  *)
(* ledger nor the reasoning engine.                                        *)
C18_CriticWithoutDirection ==
    (hist.node = "skeptic" /\ hist.before.strategist_direction = "None") =>
        /\ OnlyErrorSet
        /\ state.skeptic_recommendation = hist.before.skeptic_recommendation
        /\ state.skeptic_risks = hist.before.skeptic_risks
        /\ state.skeptic_critique = hist.before.skeptic_critique
        /\ ~hist.engine
        /\ ~hist.ledger_read

(* The Critic has run without a direction, over a ledger holding a lot *)
C18_Witness ==
    /\ hist.node = "skeptic"
    /\ hist.before.strategist_direction = "None"
    /\ hist.before.skeptic_recommendation = "None"
    /\ state.error_message = "No hay propuesta del Estratega para criticar"
    /\ ledger # <<>>

(* C19: the Arbiter invoked on a state without the Proposer's direction or *)
(* without the Critic's assessment sets the error slot and returns the     *)
(* state otherwise unchanged (no decision written), having called neither  *)
(* the ledger nor the reasoning engine.                                    *)
C19_ArbiterWithoutInputs ==
    (/\ hist.node = "executor"
     /\ \/ hist.before.strategist_direction = "None"
        \/ hist.before.skeptic_recommendation = "None") =>
        /\ OnlyErrorSet
        /\ pc # "executor_llm"
        /\ state.executor_decision = "None"
        /\ arb = NoArb
        /\ ledger \in NodeLedgers
        /\ ~hist.engine
        /\ ~hist.ledger_read

(* The Arbiter has run with a direction but without an assessment *)
C19_Witness ==
    /\ hist.node = "executor"
    /\ hist.before.strategist_direction # "None"
    /\ hist.before.skeptic_recommendation = "None"
    /\ state.error_message = "No hay critica del Abogado del Diablo para evaluar"

(* The last node invoked has returned, and was handed a state without its  *)
(* own result, so that its result in the state tells that it succeeded     *)
StageReturned ==
    /\ hist.node # "none"
    /\ ~hist.raised
    /\ pc # "executor_llm"
    /\ ~StageWrote(hist.node, hist.before)

(* C20: the error slot holds one message, the last writer's.  A stage that *)
(* returns having failed leaves its own message in place of whatever the   *)
(* slot held, and each of the seven stages, returning its result, leaves   *)
(* the slot null even when an earlier stage had set it.                    *)
C20_ErrorSlotLastWriterWins ==
    StageReturned =>
        IF StageWrote(hist.node, state)
        THEN state.error_message = "None"
        ELSE /\ state.error_message # "None"
             /\ state.error_message # hist.before.error_message

(* The technical analysis has succeeded on a state whose error slot an     *)
(* earlier stage had set                                                   *)
C20_Witness ==
    /\ StageReturned
    /\ hist.node = "technical_analysis"
    /\ hist.before.error_message # "None"
    /\ StageWrote(hist.node, state)
    /\ state.error_message = "None"

----------------------------------------------------------------------------
(* Properties of the support/resistance node (NodeSpec) *)

SetMax(S) == CHOOSE v \in S : \A w \in S : w <= v
SetMin(S) == CHOOSE v \in S : \A w \in S : v <= w

(* The support/resistance node has returned, having got a current price *)
ZonesScanned ==
    /\ hist.node = "support_resistance_analysis"
    /\ ~hist.raised
    /\ hist.inputs.price # NoneNum

ScannedPrice == CHOOSE v \in hist.inputs.price : TRUE
SupportsBelow == {v \in hist.inputs.supports : v < ScannedPrice}
ResistancesAbove == {v \in hist.inputs.resistances : v > ScannedPrice}

(* C21: with current price P, the node writes as nearest support the       *)
(* greatest support price below P and as nearest resistance the least      *)
(* resistance price above P; a side with no such price is not written, and *)
(* a zone at exactly P counts for neither side.                            *)
C21_NearestZones ==
    ZonesScanned =>
        /\ state.nearest_support =
               IF SupportsBelow # {} THEN Num(SetMax(SupportsBelow))
               ELSE hist.before.nearest_support
        /\ state.nearest_resistance =
               IF ResistancesAbove # {} THEN Num(SetMin(ResistancesAbove))
               ELSE hist.before.nearest_resistance

(* Two supports lie below the price, and one resistance at the price       *)
(* itself next to one above it                                             *)
C21_Witness ==
    /\ ZonesScanned
    /\ hist.inputs.supports = {1, 2}
    /\ hist.inputs.resistances = {3, 5}
    /\ state.nearest_support = Num(2)
    /\ state.nearest_resistance = Num(5)
    /\ hist.before.nearest_support = NoneNum

(* The two messages of the node for zones not found *)
NoZonesErrors == {"No se encontraron zonas", "No se encontraron zonas validas"}

(* C22: once it has the current price, the support/resistance node fails   *)
(* with the no-zones error exactly when there is no support below the      *)
(* price and no resistance above it; with one side only it succeeds,       *)
(* writes that side alone and leaves the error slot null.                  *)
C22_NoZonesIffBothSidesMissing ==
    ZonesScanned =>
        /\ state.error_message \in NoZonesErrors
              <=> (SupportsBelow = {} /\ ResistancesAbove = {})
        /\ (SupportsBelow # {} \/ ResistancesAbove # {}) =>
              /\ state.error_message = "None"
              /\ SupportsBelow = {} =>
                    state.nearest_support = hist.before.nearest_support
              /\ SupportsBelow # {} => state.nearest_support # NoneNum
              /\ ResistancesAbove = {} =>
                    state.nearest_resistance = hist.before.nearest_resistance
              /\ ResistancesAbove # {} => state.nearest_resistance # NoneNum

(* The node has succeeded with a resistance and no support, on a state     *)
(* whose error slot was set                                                *)
C22_Witness ==
    /\ ZonesScanned
    /\ SupportsBelow = {}
    /\ ResistancesAbove # {}
    /\ hist.before.error_message # "None"
    /\ hist.before.nearest_support = NoneNum
    /\ state.nearest_support = NoneNum
    /\ state.nearest_resistance # NoneNum
    /\ state.error_message = "None"

----------------------------------------------------------------------------
(* Properties of the Arbiter's coercion (NodeSpec) *)

(* C23: when neither coercion case applies (tentative hold with any        *)
(* position, tentative buy with position = 0, tentative sell with          *)
(* position > 0), the decision and the reasoning text the Arbiter writes   *)
(* are exactly the tentative ones the LLM returned.                        *)
C23_TentativeStands ==
    (/\ ArbiterDecided
     /\ \/ arb.tentative.final_decision = "hold"
        \/ arb.tentative.final_decision = "buy" /\ PositionBeforeArbiter = 0
        \/ arb.tentative.final_decision = "sell" /\ PositionBeforeArbiter > 0) =>
        /\ state.executor_decision = arb.tentative.final_decision
        /\ state.executor_reasoning = arb.tentative.reasoning

(* A tentative buy has stood with no position held *)
C23_Witness ==
    /\ ArbiterDecided
    /\ arb.tentative.final_decision = "buy"
    /\ PositionBeforeArbiter = 0
    /\ state.executor_decision = "buy"
    /\ state.executor_reasoning = arb.tentative.reasoning

(* The override note for a tentative decision *)
OverrideNote(original) ==
    IF original = "buy" THEN "NOTA: La decision original era BUY"
    ELSE "NOTA: La decision original era SELL"

(* C24: whenever the coercion changes a tentative buy or sell to hold, the *)
(* reasoning text written to the state holds the original reasoning and    *)
(* one override note, which names the original decision; the two coercion  *)
(* cases never both fire in one run.                                       *)
C24_OverrideNoted ==
    (/\ ArbiterDecided
     /\ arb.tentative.final_decision \in {"buy", "sell"}
     /\ state.executor_decision = "hold") =>
        state.executor_reasoning =
            <<"[AJUSTADO POR SEGURIDAD]">> \o arb.tentative.reasoning
            \o <<OverrideNote(arb.tentative.final_decision)>>

(* Scenario E: a tentative buy with a position held has been forced to hold *)
C24_Witness ==
    /\ ArbiterDecided
    /\ arb.tentative.final_decision = "buy"
    /\ PositionBeforeArbiter > 0
    /\ state.executor_decision = "hold"
    /\ state.executor_reasoning[Len(state.executor_reasoning)] = OverrideNote("buy")

----------------------------------------------------------------------------
(* Properties of the state along a run (RunSpec) *)

(* The keys of the state the nodes write, the error slot apart *)
WrittenFields == DOMAIN NoState \ {"symbols", "news_limit", "error_message"}

(* C25: in every run, once a stage has written a field of the state other  *)
(* than the error slot, no later step deletes it or resets it to unset.    *)
C25_FieldsNeverUnset ==
    [][\A f \in WrittenFields :
          state[f] # NoState[f] => (f \in DOMAIN state' /\ state'[f] # NoState[f])]_vars

(* The run has ended with the results of the first and of the last stage,  *)
(* and of those between them, in the state                                 *)
C25_Witness ==
    /\ pc = "END"
    /\ state.news_sentiment # "None"
    /\ state.fear_greed_index # NoneNum
    /\ state.strategist_proposal # "None"
    /\ state.skeptic_risks # NoneNum
    /\ state.executor_decision # "None"
    /\ hist.ran = Len(StageOrder)

----------------------------------------------------------------------------
(* Properties of the PnL summary (Spec) *)

(* The sells of l created in the window of `days` days that ends at clock, *)
(* and carry a PnL                                                         *)
QualifyingSells(l, clock, days) ==
    {i \in 1..Len(l) :
        /\ l[i].action = "sell"
        /\ l[i].created_at >= clock - days
        /\ l[i].created_at <= clock
        /\ ~IsNone(l[i].pnl)}

RECURSIVE PnlOver(_, _)
PnlOver(l, rows) ==
    IF rows = {} THEN Frac(0, 1)
    ELSE LET i == CHOOSE j \in rows : TRUE
         IN  AddFrac(l[i].pnl, PnlOver(l, rows \ {i}))

(* C26: get_pnl_summary(days) returns as total the sum of the PnL of the   *)
(* sells created within the trailing window that carry a PnL, as number of *)
(* trades their number, and as average the total over that number; with no *)
(* such sell it returns 0, 0 and 0.0.  Buys never contribute.              *)
C26_PnlSummary ==
    last.op = "get_pnl_summary" =>
        LET rows == QualifyingSells(ledger, last.clock, last.summary.period_days)
            total == PnlOver(ledger, rows)
        IN  /\ last.summary.total_pnl = total
            /\ last.summary.num_trades = Cardinality(rows)
            /\ last.summary.avg_pnl_per_trade =
                  IF rows = {} THEN Frac(0, 1)
                  ELSE Frac(total.num, total.den * Cardinality(rows))
            /\ \A i \in rows : ledger[i].action # "buy"

(* Two sells with a PnL, of which the window holds the later one only *)
C26_Witness ==
    /\ last.op = "get_pnl_summary"
    /\ Cardinality({i \in 1..Len(ledger) : ledger[i].action = "sell"}) = 2
    /\ last.summary.num_trades = 1
    /\ last.summary.total_pnl.num # 0

----------------------------------------------------------------------------
(* Properties of the Critic and the Proposer on what they are given        *)
(* (NodeSpec)                                                              *)

(* The Critic got from the LLM a critique with fewer than 3 or more than 7 *)
(* risks                                                                   *)
CritiqueOutOfBounds ==
    /\ hist.node = "skeptic"
    /\ \E n \in hist.inputs.risks : n < 3 \/ n > 7

(* C27: a critique with fewer than 3 or more than 7 risks is rejected: the *)
(* Critic writes no critique field, records the failure in the error slot  *)
(* and returns, so that the Arbiter runs next and finds the assessment     *)
(* missing.                                                                *)
C27_InvalidCritiqueRecorded ==
    CritiqueOutOfBounds =>
        /\ state.skeptic_recommendation = hist.before.skeptic_recommendation
        /\ state.skeptic_risks = hist.before.skeptic_risks
        /\ state.skeptic_critique = hist.before.skeptic_critique
        /\ ~hist.raised
        /\ state.error_message # "None"
        /\ pc = "executor"

(* The Proposer was handed a state in which the support/resistance node    *)
(* wrote no current price, or wrote one of the two nearest zones only      *)
ZonesPartlyMissing ==
    /\ hist.node = "strategist"
    /\ \/ hist.before.current_price = NoneNum
       \/ (hist.before.nearest_support = NoneNum)
              # (hist.before.nearest_resistance = NoneNum)

(* C28: the Proposer does not need an earlier stage to have succeeded:     *)
(* handed a state without current price, or with only one of nearest       *)
(* support and nearest resistance, it returns (with a proposal or with the *)
(* error slot set) and does not raise.                                     *)
C28_ProposerReturnsWithoutZones ==
    ZonesPartlyMissing =>
        /\ ~hist.raised
        /\ state.strategist_direction # "None" \/ state.error_message # "None"

----------------------------------------------------------------------------
(* Further properties of a pipeline run (RunSpec) *)

(* C29: a stage either writes its own output fields or fails by setting    *)
(* the error slot alone: a stage that returns with the error slot set has  *)
(* written no other field of the state in that invocation.                 *)
C29_FailureWritesOnlyError ==
    (/\ hist.node # "none"
     /\ ~hist.raised
     /\ pc # "executor_llm"
     /\ state.error_message # "None") =>
        [state EXCEPT !.error_message = hist.before.error_message] = hist.before

----------------------------------------------------------------------------
(* Properties of the ledger under any arguments (AnySpec) *)

(* C30: every transaction in the ledger has quantity > 0, price > 0 and    *)
(* total = quantity * price, whatever call of buy or sell appended it.     *)
C30_RowsPositive ==
    \A i \in 1..Len(ledger) :
        /\ ledger[i].quantity > 0
        /\ ledger[i].price > 0
        /\ ledger[i].total = ledger[i].quantity * ledger[i].price

----------------------------------------------------------------------------
(* Properties of the end of a run (RunSpec) *)

(* C32: at the end of every run in which no stage raises, the error slot   *)
(* is null exactly when the Arbiter succeeded and the final decision is in *)
(* the state; so a run in which a market stage failed and the three        *)
(* deliberation roles succeeded ends with the slot null and is reported as *)
(* success.                                                                *)
C32_ErrorNullIffArbiterSucceeded ==
    pc = "END" =>
        /\ state.error_message = "None" <=> state.executor_decision # "None"
        /\ state.executor_decision # "None" => AnalyzeTrading(state).success

(* The news stage failed, the three roles succeeded, the run is reported   *)
(* as success                                                              *)
C32_Witness ==
    /\ pc = "END"
    /\ state.news_sentiment = "None"
    /\ state.strategist_direction # "None"
    /\ state.skeptic_recommendation # "None"
    /\ state.executor_decision # "None"
    /\ state.error_message = "None"
    /\ AnalyzeTrading(state).success

(* C33: if the Proposer fails without writing a direction, the run goes    *)
(* on: the Critic and then the Arbiter each put their own missing-input    *)
(* message in the error slot, so the run ends with the Arbiter's "no       *)
(* proposal to evaluate" message and the Proposer's own message is lost.   *)
C33_ProposerFailureOverwritten ==
    /\ (hist.node = "strategist" /\ state.strategist_direction = "None") =>
          /\ ~hist.raised
          /\ pc = "skeptic"
          /\ state.error_message # "None"
    /\ (RunEnded /\ hist.ran >= 5 /\ state.strategist_direction = "None") =>
          /\ pc = "END"
          /\ state.error_message = "No hay propuesta del Estratega para evaluar"

(* C34: a pipeline run only reads the ledger: no step of a run (a node or  *)
(* the start of the run) changes the ledger, so its rows, every position   *)
(* and the balance are what they were, whatever the final decision is.     *)
C34_RunOnlyReads ==
    [][(pc' # pc \/ state' # state \/ arb' # arb \/ hist' # hist) =>
          /\ ledger' = ledger
          /\ GetAvailableBalance(ledger') = GetAvailableBalance(ledger)
          /\ \A s \in Symbols :
                GetPositionQuantity(ledger', s) = GetPositionQuantity(ledger, s)]_vars

C34_Witness ==
    /\ ArbiterDecided
    /\ state.executor_decision = "sell"
    /\ ledger # <<>>
    /\ ledger = arb.before

(* The sum of the totals of the rows of l with the given action *)
RECURSIVE SumTotals(_, _)
SumTotals(l, action) ==
    IF l = <<>> THEN 0
    ELSE (IF Head(l).action = action THEN Head(l).total ELSE 0)
         + SumTotals(Tail(l), action)

(* C35: after any sequence of buy and sell calls made one at a time on an  *)
(* initially empty ledger, balance() = 10,000 - (sum of the totals of all  *)
(* buy rows) + (sum of the totals of all sell rows): the balance read from *)
(* the latest snapshot equals the balance found by replaying the log.      *)
C35_BalanceIsReplay ==
    \A balance \in GetAvailableBalance(ledger) :
        balance = DefaultBalance - SumTotals(ledger, "buy") + SumTotals(ledger, "sell")

(* C39: balance() returns the snapshot of the row appended last even when  *)
(* two rows carry the same created_at: ordering by created_at alone always *)
(* identifies the most recent row.                                         *)
C39_LatestRowIdentified ==
    ledger # <<>> =>
        /\ LatestRows(ledger) = {Len(ledger)}
        /\ LastRow.available_usd # 0 =>
              GetAvailableBalance(ledger) = {LastRow.available_usd}

(* Two buys of different sessions that read the same rows and the same     *)
(* balance and have both committed on top of those rows                    *)
InterleavedBuys(s1, s2) ==
    /\ s1 # s2
    /\ calls[s1].pc = "committed" /\ calls[s2].pc = "committed"
    /\ calls[s1].op = "buy" /\ calls[s2].op = "buy"
    /\ calls[s1].before = calls[s2].before
    /\ calls[s1].available_usd = calls[s2].available_usd
    /\ Len(ledger) = Len(calls[s1].before) + 2
    /\ SubSeq(ledger, 1, Len(calls[s1].before)) = calls[s1].before

(* No row older than the two buys carries the latest created_at: the      *)
(* query of balance() returns a row of the two                             *)
NoOlderTie == LatestRows(ledger) \subseteq {Len(ledger) - 1, Len(ledger)}

(* Besides, neither snapshot is a zero that balance() would take for a     *)
(* missing one                                                             *)
SnapshotsReadable(s1, s2) ==
    /\ NoOlderTie
    /\ calls[s1].tx.available_usd # 0
    /\ calls[s2].tx.available_usd # 0

(* C36: when two buys of concurrent sessions interleave, each writes the   *)
(* snapshot (balance it read) - (its own cost); after both have appended,  *)
(* balance() never reflects both costs, it is the snapshot of one of the   *)
(* two rows, while position counts both quantities.                        *)
C36_LostDebit ==
    \A s1 \in Sessions, s2 \in Sessions :
        InterleavedBuys(s1, s2) =>
            LET read == calls[s1].available_usd
                cost1 == calls[s1].quantity * calls[s1].price
                cost2 == calls[s2].quantity * calls[s2].price
            IN  /\ {ledger[Len(ledger) - 1], ledger[Len(ledger)]}
                      = {calls[s1].tx, calls[s2].tx}
                /\ calls[s1].tx.available_usd = read - cost1
                /\ calls[s2].tx.available_usd = read - cost2
                /\ NoOlderTie =>
                      \A balance \in GetAvailableBalance(ledger) :
                          /\ balance > read - cost1 - cost2
                          /\ SnapshotsReadable(s1, s2) =>
                                balance \in {read - cost1, read - cost2}
                /\ GetPositionQuantity(ledger, calls[s1].symbol)
                      = GetPositionQuantity(calls[s1].before, calls[s1].symbol)
                        + calls[s1].quantity + calls[s2].quantity

C36_Witness ==
    \E s1 \in Sessions, s2 \in Sessions :
        /\ InterleavedBuys(s1, s2)
        /\ SnapshotsReadable(s1, s2)
        /\ calls[s1].quantity * calls[s1].price + calls[s2].quantity * calls[s2].price
              <= calls[s1].available_usd
        /\ calls[s1].quantity * calls[s1].price # calls[s2].quantity * calls[s2].price
        /\ ledger[Len(ledger)] = calls[s2].tx
        /\ GetAvailableBalance(ledger)
              = {calls[s1].available_usd - calls[s2].quantity * calls[s2].price}

(* The decision the coercion rule gives for a tentative decision when the  *)
(* position is held or not                                                  *)
CoercedDecision(tentative, has_position) ==
    IF tentative = "buy" /\ has_position THEN "hold"
    ELSE IF tentative = "sell" /\ ~has_position THEN "hold"
    ELSE tentative

(* C37: the Arbiter reads the ledger position once, before it invokes the  *)
(* reasoning engine, and applies the coercion rule to that snapshot        *)
(* without reading the ledger again; each role reads the ledger as it is   *)
(* when the role runs, so rows another caller commits between two roles    *)
(* are seen by the later one, and rows committed while the Arbiter awaits  *)
(* the reasoning engine are not reflected in the final decision.           *)
C37_ArbiterDecidesOnSnapshot ==
    [][/\ (pc = "strategist" /\ pc' # pc) => hist'.ledger_read
       /\ (pc = "skeptic" /\ pc' # pc /\ ~SkepticNeedsProposal(state)) =>
              hist'.ledger_read
       /\ (pc = "executor" /\ pc' = "executor_llm") =>
              /\ hist'.ledger_read /\ ~hist'.engine
              /\ arb'.before = ledger
              /\ arb'.position.current_quantity
                    = GetPositionQuantity(ledger, PrimarySymbol(state))
              /\ arb'.position.has_position
                    = (GetPositionQuantity(ledger, PrimarySymbol(state)) > 0)
       /\ (pc = "executor_llm" /\ pc' = "executor_llm") =>
              /\ arb'.position = arb.position
              /\ arb'.before = arb.before
       /\ (pc = "executor_llm" /\ pc' = "END") =>
              /\ hist'.engine
              /\ state'.executor_decision
                    = CoercedDecision(arb'.tentative.final_decision,
                                      arb.position.has_position)
              /\ state'.executor_final_params[1].current_quantity
                    = arb.position.current_quantity]_vars

C37_Witness ==
    /\ ArbiterDecided
    /\ PositionBeforeArbiter = 0
    /\ GetPositionQuantity(ledger, PrimarySymbol(state)) > 0
    /\ arb.tentative.final_decision = "buy"
    /\ state.executor_decision = "buy"
    /\ state.executor_final_params[1].current_quantity = 0

(* C38: the coercion rule changes only the decision and the reasoning      *)
(* text: the risk assessment, the confidence level, the accepted points    *)
(* and the key factors stored in the state are those the LLM returned,     *)
(* whether or not the decision was forced to hold.                         *)
C38_CoercionKeepsTheRest ==
    ArbiterDecided =>
        /\ state.executor_final_params[1].risk_assessment
              = arb.tentative.risk_assessment
        /\ state.executor_final_params[1].confidence_level
              = arb.tentative.confidence_level
        /\ state.executor_final_params[1].position_context_considered
              = arb.tentative.position_context_considered
        /\ state.executor_decision_text[1].strategist_points_accepted
              = arb.tentative.strategist_points_accepted
        /\ state.executor_decision_text[1].skeptic_points_accepted
              = arb.tentative.skeptic_points_accepted
        /\ state.executor_decision_text[1].key_factors_for_decision
              = arb.tentative.key_factors_for_decision
        /\ state.executor_decision # arb.tentative.final_decision =>
              /\ state.executor_decision = "hold"
              /\ state.executor_reasoning # arb.tentative.reasoning

C38_Witness ==
    /\ ArbiterDecided
    /\ arb.tentative.final_decision = "buy"
    /\ state.executor_decision = "hold"
    /\ state.executor_reasoning # arb.tentative.reasoning
    /\ state.executor_final_params[1].risk_assessment = "low"
    /\ state.executor_decision_text[1].key_factors_for_decision
          = arb.tentative.key_factors_for_decision

-----------------------------------------------------------------------------
(* Pipeline runs going on at the same time (TwoRunSpec).  The route and    *)
(* the scheduler each await run_trading_analysis on the same event loop    *)
(* and the same compiled graph; a run yields at every await of a node, so  *)
(* the nodes of two runs interleave.  A node is taken as one step, with    *)
(* one failing and one succeeding result of its external calls.            *)

(* One dict of the module for every call: not what the source does *)
SharedDict(r) == "on_demand"

(* `initial_state: AgentState = {...}`: the dict the call of r builds *)
InitialDict(r) == r

(* The state the run r works on *)
Context(r) == runs.dict[runs.ref[r]]

(* The arguments of run_trading_analysis: those of the request, or the     *)
(* scheduler's                                                             *)
RunRequests(r) ==
    IF r = "scheduled"
    THEN {[symbols |-> <<"BTCUSD">>, news_limit |-> 10]}
    ELSE [symbols : RunSymbols, news_limit : {5, 10}]

Returned(st) == [raised |-> FALSE, state |-> st]
Excepted(st) == [raised |-> TRUE, state |-> st]

(* What a node may do with the state st while the ledger holds l *)
NodeOutcomes(node, st, l) ==
    CASE node = "news_analysis" ->
            {Returned(CryptoNewsSentimentNode(st, r)) :
                r \in {"AlpacaNewsClientError", "positive"}}
      [] node = "technical_analysis" ->
            {Returned(TechnicalAnalysisNode(st, r)) : r \in {"no_values", "bullish"}}
      [] node = "fear_greed_analysis" ->
            {Returned(FearGreedNode(st, [raises |-> FALSE, data |-> <<50>>]))}
      [] node = "support_resistance_analysis" ->
            {Returned(SupportResistanceNode(st, Num(3), <<2>>, <<4>>))}
      [] node = "strategist" ->
            IF FormatContextRaises(st) THEN {Excepted(st)}
            ELSE {Excepted(st), Returned(StrategistAgentNode(st, "buy"))}
      [] node = "skeptic" ->
            IF SkepticNeedsProposal(st)
            THEN {Returned(SetError(st, "No hay propuesta del Estratega para criticar"))}
            ELSE {Returned(SkepticAgentNode(st, "acceptable", 3))}
      [] node = "executor" ->
            IF ExecutorMissingInput(st) # "None"
            THEN {Returned(SetError(st, ExecutorMissingInput(st)))}
            ELSE {Returned(SetError(st, "Error al consultar posicion"))} \cup
                 {Returned(ExecutorAgentNode(
                              st, tentative,
                              GetCurrentPositionContext(l, PrimarySymbol(st),
                                                        available_usd))) :
                     tentative \in {d \in Decisions : d.risk_assessment = "low"},
                     available_usd \in GetAvailableBalance(l)}

(* run_trading_analysis is called: the run starts on the dict it builds *)
TwoStart(r, request) ==
    /\ runs.pc[r] = "idle"
    /\ runs' = [pc |-> [runs.pc EXCEPT ![r] = NextNode("START")],
                ref |-> [runs.ref EXCEPT ![r] = InitialDict(r)],
                dict |-> [runs.dict EXCEPT ![InitialDict(r)] =
                            InitialState(request.symbols, request.news_limit)]]
    /\ UNCHANGED <<ledgerVars, state, pc, arb, hist>>

(* The graph invokes the next node of the run r on the run's state *)
TwoNode(r) ==
    /\ runs.pc[r] \notin {"idle", "END", "raised"}
    /\ \E o \in NodeOutcomes(runs.pc[r], Context(r), ledger) :
          runs' = [runs EXCEPT
                     !.pc[r] = IF o.raised THEN "raised" ELSE NextNode(runs.pc[r]),
                     !.dict[runs.ref[r]] = o.state]
    /\ UNCHANGED <<ledgerVars, state, pc, arb, hist>>

(* ainvoke has returned or raised: the caller has the result, r may be     *)
(* triggered again                                                         *)
TwoEnd(r) ==
    /\ runs.pc[r] \in {"END", "raised"}
    /\ runs' = [runs EXCEPT !.pc[r] = "idle"]
    /\ UNCHANGED <<ledgerVars, state, pc, arb, hist>>

TwoInit ==
    /\ ledger \in NodeLedgers
    /\ now = Len(ledger)
    /\ last = NoCall
    /\ calls = [s \in Sessions |-> IdleCall]
    /\ state = NoState
    /\ pc = "idle"
    /\ arb = NoArb
    /\ hist = NoHist
    /\ runs = NoRuns

TwoStartStep == \E r \in RunIds : \E request \in RunRequests(r) : TwoStart(r, request)
TwoNodeStep == \E r \in RunIds : TwoNode(r)
TwoEndStep == \E r \in RunIds : TwoEnd(r)

TwoNext == TwoStartStep \/ TwoNodeStep \/ TwoEndStep

TwoRunSpec == TwoInit /\ [][TwoNext]_vars

(* C31: each pipeline invocation starts from a fresh context holding only  *)
(* the input symbols and the news limit, and two runs going on at the      *)
(* same time never see each other's context fields or error slot: no step  *)
(* of one run changes the context of the other, and the ledger is the only *)
(* state both read.                                                        *)
C31_RunsIsolated ==
    [][\A r \in RunIds :
          /\ (runs.pc[r] = "idle" /\ runs'.pc[r] # "idle") =>
                Context(r)' = InitialState(Context(r)'.symbols, Context(r)'.news_limit)
          /\ (runs.pc[r] # "idle" /\ runs'.pc[r] = runs.pc[r]) =>
                Context(r)' = Context(r)
          /\ \A q \in RunIds :
                (q # r /\ runs'.pc[r] # "idle" /\ runs'.pc[q] # "idle") =>
                    runs'.ref[q] # runs'.ref[r]
          /\ (runs'.pc[r] \notin {"idle", "raised"} /\ runs'.pc[r] # runs.pc[r]
              /\ runs.pc[r] # "idle") =>
                Returned(Context(r)') \in NodeOutcomes(runs.pc[r], Context(r), ledger)]_vars

C31_Witness ==
    /\ runs.pc["on_demand"] = "executor"
    /\ Context("on_demand").symbols = <<"ETHUSD">>
    /\ Context("on_demand").strategist_direction # "None"
    /\ Context("on_demand").error_message = "None"
    /\ runs.pc["scheduled"] = "technical_analysis"
    /\ Context("scheduled").symbols = <<"BTCUSD">>
    /\ Context("scheduled").strategist_direction = "None"
    /\ Context("scheduled").error_message # "None"

====
